---- MODULE Spec2Model ----
(***************************************************************************)
(* OnyLogger: leveled console logging, line prompts, a spinner and an      *)
(* option selector.  Text is modelled as a sequence of tokens (one-string  *)
(* pieces); standard input is a sequence of single characters.             *)
(***************************************************************************)
EXTENDS Integers, Sequences, FiniteSets, TLC

VARIABLES
    DebugEnabled,    \* package flag
    ColorsEnabled,   \* package flag
    SuppressOutput,  \* package flag
    clock,           \* what time.Now() returns, in seconds
    lastCall,        \* the facade call made last: [fn, level, message, ts]
    written,         \* what that call wrote to standard output
    ret,             \* what that call returned (string variants)
    spinner,         \* the Spinner, its caller and its background task
    sel,             \* the selector: model, event loop and SelectOption's result
    input            \* a prompt call: stdin, scanner, the caller's output

vars == <<DebugEnabled, ColorsEnabled, SuppressOutput, clock, lastCall, written,
          ret, spinner, sel, input>>

flagVars == <<DebugEnabled, ColorsEnabled, SuppressOutput>>
logVars == <<clock, lastCall, written, ret>>

(***************************************************************************)
(* Bounds of the model.                                                    *)
(***************************************************************************)
MaxClock == 2
MaxArgs == 1
MaxStops == 2
MaxEvents == 4
MaxOptions == 3
MaxLen == 5

(***************************************************************************)
(* Formatter                                                               *)
(***************************************************************************)
colorReset == "ESC[0m"
colorMagenta == "ESC[35m"
colorYellow == "ESC[33m"
colorRed == "ESC[31m"
colorCyan == "ESC[36m"
colorGreen == "ESC[32m"

emojiInfo == "scroll"
emojiWarning == "warning"
emojiError == "cross"
emojiDebug == "bug"
emojiSuccess == "check"
emojiLoading == "hourglass"
emojiInput == "memo"

Levels == {"INFO", "WARNING", "ERROR", "DEBUG", "SUCCESS", "USERINPUT", "LOADING"}

\* time.Now().Format("2006-01-02 15:04:05"): one token per second of the clock.
Timestamp(now) == ToString(now)

\* The switch of logMessage: the level's colour ("" is the unset string).
LevelColor(level) ==
    CASE level = "INFO" -> colorMagenta
      [] level = "WARNING" -> colorYellow
      [] level = "ERROR" -> colorRed
      [] level = "DEBUG" -> colorCyan
      [] level = "SUCCESS" -> colorGreen
      [] level = "USERINPUT" -> colorReset
      [] level = "LOADING" -> colorCyan
      [] OTHER -> colorReset

\* The switch of logMessage and slogMessage: the level's emoji.
LevelEmoji(level) ==
    CASE level = "INFO" -> emojiInfo
      [] level = "WARNING" -> emojiWarning
      [] level = "ERROR" -> emojiError
      [] level = "DEBUG" -> emojiDebug
      [] level = "SUCCESS" -> emojiSuccess
      [] level = "USERINPUT" -> emojiInput
      [] level = "LOADING" -> emojiLoading
      [] OTHER -> ""

\* A string as its non-empty pieces: "" contributes nothing to the text.
Piece(s) == IF s = "" THEN <<>> ELSE <<s>>

\* logMessage without the SuppressOutput guard (a plausible slip).
logMessageUnguarded(level, message, now) ==
    LET color == IF ColorsEnabled THEN LevelColor(level) ELSE ""
        formattedMessage ==
            Piece(color) \o <<"[", Timestamp(now), "]">> \o Piece(colorReset)
            \o <<" [">> \o Piece(LevelEmoji(level)) \o <<"] ">> \o message
    IN  IF level # "USERINPUT"
        THEN formattedMessage \o <<"\n">>
        ELSE formattedMessage

\* logMessage: what the call writes to standard output (log.Println adds the
\* newline; the prompt of USERINPUT is printed without one).
logMessage(level, message, now) ==
    IF SuppressOutput
    THEN <<>>
    ELSE LET color == IF ColorsEnabled THEN LevelColor(level) ELSE ""
             formattedMessage ==
                 Piece(color) \o <<"[", Timestamp(now), "]">> \o Piece(colorReset)
                 \o <<" [">> \o Piece(LevelEmoji(level)) \o <<"] ">> \o message
         IN  IF level # "USERINPUT"
             THEN formattedMessage \o <<"\n">>
             ELSE formattedMessage

\* slogMessage: the formatted string returned, never coloured.
slogMessage(level, message, now) ==
    IF SuppressOutput
    THEN <<>>
    ELSE <<"[", Timestamp(now), "]">> \o <<" [">> \o Piece(LevelEmoji(level))
         \o <<"] ">> \o message

\* fmt.Sprint of string operands: their concatenation (no space is added
\* between operands that are strings).
RECURSIVE Sprint(_)
Sprint(args) ==
    IF args = <<>> THEN <<>> ELSE Head(args) \o Sprint(Tail(args))

\* fmt.Sprintf: each "%s" verb takes the next operand; a verb with no operand
\* left prints %!s(MISSING), operands left over print %!(EXTRA ...).
RECURSIVE Sprintf(_, _)
Sprintf(format, a) ==
    IF format = <<>>
    THEN IF a = <<>> THEN <<>> ELSE <<"%!(EXTRA ">> \o Sprint(a) \o <<")">>
    ELSE IF Head(format) = "%s"
         THEN IF a = <<>>
              THEN <<"%!s(MISSING)">> \o Sprintf(Tail(format), a)
              ELSE Head(a) \o Sprintf(Tail(format), Tail(a))
         ELSE <<Head(format)>> \o Sprintf(Tail(format), a)

(***************************************************************************)
(* Logger facade: what each function writes (log-now) or returns (string). *)
(***************************************************************************)
Info(args, now) == logMessage("INFO", Sprint(args), now)
Sinfo(args, now) == slogMessage("INFO", Sprint(args), now)
Infof(format, a, now) == Info(<<Sprintf(format, a)>>, now)
Sinfof(format, a, now) == Sinfo(<<Sprintf(format, a)>>, now)

Warning(args, now) == logMessage("WARNING", Sprint(args), now)
Swarning(args, now) == slogMessage("WARNING", Sprint(args), now)
Warningf(format, a, now) == Warning(<<Sprintf(format, a)>>, now)
Swarningf(format, a, now) == Swarning(<<Sprintf(format, a)>>, now)

Error(args, now) == logMessage("ERROR", Sprint(args), now)
Serror(args, now) == slogMessage("ERROR", Sprint(args), now)
Errorf(format, a, now) == Error(<<Sprintf(format, a)>>, now)
Serrorf(format, a, now) == Serror(<<Sprintf(format, a)>>, now)

\* Debug without the DebugEnabled guard (a plausible slip).
DebugUngated(args, now) == logMessage("DEBUG", Sprint(args), now)

Debug(args, now) ==
    IF DebugEnabled THEN logMessage("DEBUG", Sprint(args), now) ELSE <<>>

Sdebug(args, now) ==
    IF DebugEnabled THEN slogMessage("DEBUG", Sprint(args), now) ELSE <<>>

Debugf(format, a, now) ==
    IF DebugEnabled THEN Debug(<<Sprintf(format, a)>>, now) ELSE <<>>

Sdebugf(format, a, now) ==
    IF DebugEnabled THEN Sdebug(<<Sprintf(format, a)>>, now) ELSE <<>>

Success(args, now) == logMessage("SUCCESS", Sprint(args), now)
Ssuccess(args, now) == slogMessage("SUCCESS", Sprint(args), now)
Successf(format, a, now) == Success(<<Sprintf(format, a)>>, now)
Ssuccessf(format, a, now) == Ssuccess(<<Sprintf(format, a)>>, now)

\* Inputs of the facade calls.
Operands == {<<>>, <<"x">>}
ArgLists == UNION {[1..n -> Operands] : n \in 0..MaxArgs}
Formats == {<<"f">>, <<"f=", "%s">>, <<"%s", ":", "%s">>}

NoCall == [fn |-> "none", level |-> "none", message |-> <<>>, ts |-> 0,
           logNow |-> FALSE]

\* A log-now call: its text goes to standard output, nothing is returned.
Wrote(fn, level, message, text) ==
    /\ lastCall' = [fn |-> fn, level |-> level, message |-> message,
                    ts |-> clock, logNow |-> TRUE]
    /\ written' = text
    /\ ret' = <<>>
    /\ UNCHANGED <<flagVars, clock, spinner, sel, input>>

\* A string call: its text is returned, nothing is written.
Returned(fn, level, message, text) ==
    /\ lastCall' = [fn |-> fn, level |-> level, message |-> message,
                    ts |-> clock, logNow |-> FALSE]
    /\ written' = <<>>
    /\ ret' = text
    /\ UNCHANGED <<flagVars, clock, spinner, sel, input>>

CallInfo ==
    \E args \in ArgLists :
        Wrote("Info", "INFO", Sprint(args), Info(args, clock))
CallSinfo ==
    \E args \in ArgLists :
        Returned("Sinfo", "INFO", Sprint(args), Sinfo(args, clock))
CallInfof ==
    \E format \in Formats, a \in ArgLists :
        Wrote("Infof", "INFO", Sprintf(format, a), Infof(format, a, clock))
CallSinfof ==
    \E format \in Formats, a \in ArgLists :
        Returned("Sinfof", "INFO", Sprintf(format, a), Sinfof(format, a, clock))

CallWarning ==
    \E args \in ArgLists :
        Wrote("Warning", "WARNING", Sprint(args), Warning(args, clock))
CallSwarning ==
    \E args \in ArgLists :
        Returned("Swarning", "WARNING", Sprint(args), Swarning(args, clock))
CallWarningf ==
    \E format \in Formats, a \in ArgLists :
        Wrote("Warningf", "WARNING", Sprintf(format, a), Warningf(format, a, clock))
CallSwarningf ==
    \E format \in Formats, a \in ArgLists :
        Returned("Swarningf", "WARNING", Sprintf(format, a),
                 Swarningf(format, a, clock))

CallError ==
    \E args \in ArgLists :
        Wrote("Error", "ERROR", Sprint(args), Error(args, clock))
CallSerror ==
    \E args \in ArgLists :
        Returned("Serror", "ERROR", Sprint(args), Serror(args, clock))
CallErrorf ==
    \E format \in Formats, a \in ArgLists :
        Wrote("Errorf", "ERROR", Sprintf(format, a), Errorf(format, a, clock))
CallSerrorf ==
    \E format \in Formats, a \in ArgLists :
        Returned("Serrorf", "ERROR", Sprintf(format, a), Serrorf(format, a, clock))

CallDebug ==
    \E args \in ArgLists :
        Wrote("Debug", "DEBUG", Sprint(args), Debug(args, clock))
CallSdebug ==
    \E args \in ArgLists :
        Returned("Sdebug", "DEBUG", Sprint(args), Sdebug(args, clock))
CallDebugf ==
    \E format \in Formats, a \in ArgLists :
        Wrote("Debugf", "DEBUG", Sprintf(format, a), Debugf(format, a, clock))
CallSdebugf ==
    \E format \in Formats, a \in ArgLists :
        Returned("Sdebugf", "DEBUG", Sprintf(format, a), Sdebugf(format, a, clock))

CallSuccess ==
    \E args \in ArgLists :
        Wrote("Success", "SUCCESS", Sprint(args), Success(args, clock))
CallSsuccess ==
    \E args \in ArgLists :
        Returned("Ssuccess", "SUCCESS", Sprint(args), Ssuccess(args, clock))
CallSuccessf ==
    \E format \in Formats, a \in ArgLists :
        Wrote("Successf", "SUCCESS", Sprintf(format, a), Successf(format, a, clock))
CallSsuccessf ==
    \E format \in Formats, a \in ArgLists :
        Returned("Ssuccessf", "SUCCESS", Sprintf(format, a),
                 Ssuccessf(format, a, clock))

\* The prompt of UserInput and MUserInput: logMessage("USERINPUT", prompt).
CallPrompt ==
    \E promptMessage \in Operands :
        Wrote("UserInput", "USERINPUT", promptMessage,
              logMessage("USERINPUT", promptMessage, clock))

\* One frame of the spinner's task: fmt.Print(slogMessage("LOADING", ...)).
\* fmt.Print writes the returned string, which is also recorded as returned.
CallFrame ==
    \E frame \in {"|", "/", "-", "\\"}, message \in Operands :
        LET text == <<frame, " ">> \o message \o <<"\r">>
        IN  /\ lastCall' = [fn |-> "Spinner", level |-> "LOADING",
                            message |-> text, ts |-> clock, logNow |-> TRUE]
            /\ written' = slogMessage("LOADING", text, clock)
            /\ ret' = slogMessage("LOADING", text, clock)
            /\ UNCHANGED <<flagVars, clock, spinner, sel, input>>

\* Time passes between calls.
Tick ==
    /\ clock < MaxClock
    /\ clock' = clock + 1
    /\ UNCHANGED <<flagVars, lastCall, written, ret, spinner, sel, input>>

(***************************************************************************)
(* Spinner: a caller (NewSpinner, Start, then Stop as often as it plans    *)
(* to) and the background task that Start launches.                        *)
(*   stopChan   "open" or "closed"                                         *)
(*   message    the message given to NewSpinner                            *)
(*   caller     "none" (no spinner in use), "created", "started",          *)
(*              "closing" (inside Stop, after close), "stopped" (Stop has   *)
(*              returned), "panicked"                                      *)
(*   plan       how many times the caller's program calls Stop             *)
(*   stops      the calls of Stop begun so far                             *)
(*   task       "none", "select", "print", "sleep", "returned", "killed"   *)
(*   frame      index of the task's current frame                          *)
(*   lastOut    the last non-empty text written to standard output         *)
(***************************************************************************)
frames == <<"|", "/", "-", "\\">>

NoSpinner ==
    [stopChan |-> "open", message |-> <<>>, caller |-> "none", plan |-> 0,
     stops |-> 0, task |-> "none", frame |-> 1, lastOut |-> <<>>]

\* NewSpinner: an open stop channel and the message.
NewSpinner(message, plan) ==
    [stopChan |-> "open", message |-> message, caller |-> "created",
     plan |-> plan, stops |-> 0, task |-> "none", frame |-> 1, lastOut |-> <<>>]

\* fmt.Print(text): the empty string writes nothing.
FmtPrint(text) == IF text = <<>> THEN spinner.lastOut ELSE text

\* Start: launch the background task, which begins at its select.
Start ==
    /\ spinner.caller = "created"
    /\ spinner' = [spinner EXCEPT !.caller = "started", !.task = "select"]
    /\ UNCHANGED <<flagVars, logVars, sel, input>>

\* The select with its stop case left out: the default branch is always taken.
TaskSelectIgnoresStop ==
    /\ spinner.task = "select"
    /\ spinner' = [spinner EXCEPT !.task = "print"]
    /\ UNCHANGED <<flagVars, logVars, sel, input>>

\* The task's select: return when stopChan is closed, else take the default
\* branch, which prints the frame.
TaskSelect ==
    /\ spinner.task = "select"
    /\ spinner' = [spinner EXCEPT
                       !.task = IF spinner.stopChan = "closed"
                                THEN "returned" ELSE "print"]
    /\ UNCHANGED <<flagVars, logVars, sel, input>>

\* The default branch: fmt.Print(slogMessage("LOADING", frame + " " + message + "\r")).
TaskPrint ==
    /\ spinner.task = "print"
    /\ LET text == <<frames[spinner.frame], " ">> \o spinner.message \o <<"\r">>
       IN  spinner' = [spinner EXCEPT
                          !.task = "sleep",
                          !.lastOut = FmtPrint(slogMessage("LOADING", text, clock))]
    /\ UNCHANGED <<flagVars, logVars, sel, input>>

\* time.Sleep(100ms) ends; the range loop moves to the next frame and the outer
\* loop starts over after the last.  The second may have changed meanwhile.
TaskWake ==
    /\ spinner.task = "sleep"
    /\ spinner' = [spinner EXCEPT
                       !.task = "select",
                       !.frame = IF spinner.frame = Len(frames)
                                 THEN 1 ELSE spinner.frame + 1]
    /\ \E now \in {clock, clock + 1} :
           /\ now <= MaxClock
           /\ clock' = now
    /\ UNCHANGED <<flagVars, lastCall, written, ret, sel, input>>

\* Stop, first statement: close(stopChan).  Closing a closed channel panics,
\* and a panic ends the program, the task with it.
StopClose ==
    /\ spinner.caller \in {"started", "stopped"}
    /\ spinner.stops < spinner.plan
    /\ spinner' = IF spinner.stopChan = "closed"
                  THEN [spinner EXCEPT
                           !.stops = @ + 1,
                           !.caller = "panicked",
                           !.task = IF @ \in {"select", "print", "sleep"}
                                    THEN "killed" ELSE @]
                  ELSE [spinner EXCEPT
                           !.stops = @ + 1,
                           !.caller = "closing",
                           !.stopChan = "closed"]
    /\ UNCHANGED <<flagVars, logVars, sel, input>>

\* Stop, second statement: fmt.Print("\r\n"); Stop returns.
StopPrint ==
    /\ spinner.caller = "closing"
    /\ spinner' = [spinner EXCEPT
                       !.caller = "stopped",
                       !.lastOut = FmtPrint(<<"\r", "\n">>)]
    /\ UNCHANGED <<flagVars, logVars, sel, input>>

TaskStep == TaskSelect \/ TaskPrint \/ TaskWake

(***************************************************************************)
(* Option selector: the model of SelectOption and the event loop of        *)
(* tea.Program.Run, which hands each message to Update until Update        *)
(* returns tea.Quit.                                                       *)
(*   optionsDescs  the map given to SelectOption (its set of titles)       *)
(*   m             the model: options, cursor, selected, choice, quitting, *)
(*                 width, height, centerItems                              *)
(*   optionWidth   what updateStyles last derived from the width           *)
(*   status        "none" (no selector in use), "running", "quit" (Update  *)
(*                 returned tea.Quit), "panic" (Update indexed out of      *)
(*                 range), "failed" (Run returned an error), "returned"    *)
(*   events        the messages Update has processed, in order             *)
(*   result        what SelectOption returned: [choice, err]               *)
(***************************************************************************)
Titles == <<"A", "B", "C", "D", "E">>
TitleSet == {Titles[i] : i \in 1..MaxOptions}

\* The description each title maps to in the caller's map.
DescOf(title) == <<"desc", title>>

\* Every order in which ranging over a map with these keys may visit them.
Orders(keys) ==
    {o \in [1..Cardinality(keys) -> keys] :
        \A i, j \in 1..Cardinality(keys) : i # j => o[i] # o[j]}

\* Widths and heights a tea.WindowSizeMsg may carry.
Widths == {0, 80}
Heights == {24}

min(a, b) == IF a < b THEN a ELSE b

\* updateStyles: the option width the styles are built with.
updateStyles(width, centerItems) == min(width - 8, 60)

\* initialModel: options appended in the order the map range yields them;
\* cursor 0, selected -1.
initialModel(order, centerItems) ==
    [options |-> [i \in 1..Len(order) |->
                     [title |-> order[i], desc |-> DescOf(order[i])]],
     cursor |-> 0, selected |-> -1, choice |-> "", quitting |-> FALSE,
     width |-> 0, height |-> 0, centerItems |-> centerItems]

NoSel ==
    [optionsDescs |-> {}, m |-> initialModel(<<>>, FALSE), optionWidth |-> 0,
     status |-> "none", events |-> <<>>, result |-> [choice |-> "", err |-> "unset"]]

\* SelectOption up to p.Run(): the model is built and the loop runs.
SelectOptionStart(keys, order, centerItems) ==
    [optionsDescs |-> keys, m |-> initialModel(order, centerItems),
     optionWidth |-> 0, status |-> "running", events |-> <<>>,
     result |-> [choice |-> "", err |-> "unset"]]

\* The loop hands one more message to Update.
Processing ==
    /\ sel.status = "running"
    /\ Len(sel.events) < MaxEvents
    /\ UNCHANGED <<flagVars, logVars, spinner, input>>

\* Update, case tea.WindowSizeMsg.
UpdateWindowSize ==
    \E w \in Widths, h \in Heights :
        /\ Processing
        /\ sel' = [sel EXCEPT
                       !.m.width = w,
                       !.m.height = h,
                       !.optionWidth = updateStyles(w, sel.m.centerItems),
                       !.events = Append(@, "resize")]

\* Update, a key matching Quit (q, esc, ctrl+c).
UpdateQuit ==
    /\ Processing
    /\ sel' = [sel EXCEPT
                   !.m.quitting = TRUE,
                   !.status = "quit",
                   !.events = Append(@, "quit")]

\* Update, a key matching Up (up, k).
UpdateUp ==
    /\ Processing
    /\ sel' = [sel EXCEPT
                   !.m.cursor = IF @ > 0 THEN @ - 1 ELSE @,
                   !.events = Append(@, "up")]

\* Down with no test against the last index.
UpdateDownUnclamped ==
    /\ Processing
    /\ sel' = [sel EXCEPT
                   !.m.cursor = @ + 1,
                   !.events = Append(@, "down")]

\* Update, a key matching Down (down, j).
UpdateDown ==
    /\ Processing
    /\ sel' = [sel EXCEPT
                   !.m.cursor = IF @ < Len(sel.m.options) - 1 THEN @ + 1 ELSE @,
                   !.events = Append(@, "down")]

\* Update, a key matching Enter: options[cursor] is read with no bounds
\* check, which panics when the index is out of range.  Update works on its
\* own copy of the model (value receiver), so the assignment to selected made
\* before the panic is lost with it.
UpdateEnter ==
    /\ Processing
    /\ sel' = IF sel.m.cursor + 1 \in 1..Len(sel.m.options)
              THEN [sel EXCEPT
                       !.m.selected = sel.m.cursor,
                       !.m.choice = sel.m.options[sel.m.cursor + 1].title,
                       !.m.quitting = TRUE,
                       !.status = "quit",
                       !.events = Append(@, "enter")]
              ELSE [sel EXCEPT
                       !.status = "panic",
                       !.events = Append(@, "enter")]

\* Update, any other key: the model is returned as it is.
UpdateOtherKey ==
    /\ Processing
    /\ sel' = [sel EXCEPT !.events = Append(@, "other")]

\* p.Run() returns an error (the terminal UI failed): SelectOption passes it on.
RunFails ==
    /\ sel.status = "running"
    /\ sel' = [sel EXCEPT
                   !.status = "failed",
                   !.result = [choice |-> "", err |-> "run error"]]
    /\ UNCHANGED <<flagVars, logVars, spinner, input>>

\* SelectOption returning the choice although nothing was selected (the
\* selected # -1 test left out).
SelectOptionResultUnchecked(m) == [choice |-> m.choice, err |-> "nil"]

\* SelectOption after p.Run() returned the final model without error.
SelectOptionResult(m) ==
    IF m.selected # -1
    THEN [choice |-> m.choice, err |-> "nil"]
    ELSE [choice |-> "", err |-> "no option was selected"]

SelectOptionReturn ==
    /\ sel.status = "quit"
    /\ sel' = [sel EXCEPT
                   !.status = "returned",
                   !.result = SelectOptionResult(sel.m)]
    /\ UNCHANGED <<flagVars, logVars, spinner, input>>

(***************************************************************************)
(* Prompts: UserInput, MUserInput and OnyLogger.Input read standard input  *)
(* through a fresh bufio.Scanner (split function ScanLines).               *)
(*   stdin      the characters standard input will deliver                 *)
(*   end        how the stream ends after them: "EOF" or "ERR" (a read     *)
(*              error)                                                     *)
(*   old        the caller's output before the call                        *)
(*   userInput  the caller's output                                        *)
(*   fn         the prompt function called ("none" before the call)        *)
(*   prompt     what the call wrote as its prompt                          *)
(*   errLog     what the call wrote through log.Println                    *)
(***************************************************************************)
Chars == {"a", "b", "\n", "\r"}
Streams == UNION {[1..n -> Chars] : n \in 0..MaxLen}
Ends == {"EOF", "ERR"}
OldValues == {<<>>, <<"z">>}

\* A new scanner over the stream: nothing read, no error yet.
NewScanner(stdin, end) == [buf |-> stdin, end |-> end, err |-> "nil"]

\* Index of the first "\n" of data, 0 when there is none (bytes.IndexByte).
IndexNewline(data) ==
    IF \E i \in 1..Len(data) : data[i] = "\n"
    THEN CHOOSE i \in 1..Len(data) :
             /\ data[i] = "\n"
             /\ \A j \in 1..(i - 1) : data[j] # "\n"
    ELSE 0

\* dropCR of bufio: a trailing "\r" is dropped.
dropCR(data) ==
    IF Len(data) > 0 /\ data[Len(data)] = "\r"
    THEN SubSeq(data, 1, Len(data) - 1)
    ELSE data

\* Scanner.Scan with ScanLines: the next complete line; when the stream ends
\* (EOF or error) the error is kept and what is left, if anything, is a last
\* line.  [ok, text, scanner]: Scan's result, Text() and the scanner after.
Scan(s) ==
    LET i == IndexNewline(s.buf)
    IN  IF i > 0
        THEN [ok |-> TRUE, text |-> dropCR(SubSeq(s.buf, 1, i - 1)),
              scanner |-> [s EXCEPT !.buf = SubSeq(s.buf, i + 1, Len(s.buf))]]
        ELSE IF s.buf # <<>>
             THEN [ok |-> TRUE, text |-> dropCR(s.buf),
                   scanner |-> [s EXCEPT !.buf = <<>>, !.err = s.end]]
             ELSE [ok |-> FALSE, text |-> <<>>,
                   scanner |-> [s EXCEPT !.err = s.end]]

\* Scanner.Err: io.EOF is not an error.
ScannerErr(s) == IF s.err = "EOF" THEN "nil" ELSE s.err

\* log.Println("Error reading input:", err)
ErrorReadingInput(err) == <<"Error reading input:", " ", err, "\n">>

\* UserInput assigning Text() whether or not Scan succeeded (as Input does).
UserInputUnconditional(stdin, end, old) ==
    LET r == Scan(NewScanner(stdin, end))
        err == ScannerErr(r.scanner)
    IN  [userInput |-> r.text,
         errLog |-> IF err # "nil" THEN ErrorReadingInput(err) ELSE <<>>]

\* UserInput after its prompt: one Scan; the output is assigned only when it
\* succeeded; an error is logged.
UserInput(stdin, end, old) ==
    LET r == Scan(NewScanner(stdin, end))
        err == ScannerErr(r.scanner)
    IN  [userInput |-> IF r.ok THEN r.text ELSE old,
         errLog |-> IF err # "nil" THEN ErrorReadingInput(err) ELSE <<>>]

\* The loop skipping an empty line instead of ending at it.
RECURSIVE MUserInputLoopNoBreak(_, _)
MUserInputLoopNoBreak(s, in) ==
    LET r == Scan(s)
    IN  IF ~r.ok
        THEN [scanner |-> r.scanner, input |-> in]
        ELSE IF r.text = <<>>
             THEN MUserInputLoopNoBreak(r.scanner, in)
             ELSE MUserInputLoopNoBreak(r.scanner, in \o r.text \o <<"\n">>)

\* The loop of MUserInput: [scanner, input] when it ends.
RECURSIVE MUserInputLoop(_, _)
MUserInputLoop(s, in) ==
    LET r == Scan(s)
    IN  IF ~r.ok
        THEN [scanner |-> r.scanner, input |-> in]
        ELSE IF r.text = <<>>
             THEN [scanner |-> r.scanner, input |-> in]
             ELSE MUserInputLoop(r.scanner, in \o r.text \o <<"\n">>)

\* MUserInput without the return after logging the error.
MUserInputNoReturn(stdin, end, old) ==
    LET l == MUserInputLoop(NewScanner(stdin, end), <<>>)
        err == ScannerErr(l.scanner)
    IN  [userInput |-> l.input,
         errLog |-> IF err # "nil" THEN ErrorReadingInput(err) ELSE <<>>]

\* MUserInput after its prompt: on an error it logs and returns before the
\* assignment of the output.
MUserInput(stdin, end, old) ==
    LET l == MUserInputLoop(NewScanner(stdin, end), <<>>)
        err == ScannerErr(l.scanner)
    IN  IF err # "nil"
        THEN [userInput |-> old, errLog |-> ErrorReadingInput(err)]
        ELSE [userInput |-> l.input, errLog |-> <<>>]

\* OnyLogger.Input after its prompt: Scan's result is not looked at and no
\* error is checked; Text() is "" after a Scan that failed.
Input(stdin, end, old) ==
    LET r == Scan(NewScanner(stdin, end))
    IN  [userInput |-> r.text, errLog |-> <<>>]

\* emojiFormatter.Format of the entry Input logs (level Info, log_type input,
\* emoji "[memo] ", no_newline), then fmt.Print(" ").
InputPrompt(message, now) ==
    <<"[", colorReset, Timestamp(now), colorReset, "] ", "[", emojiInput, "] ">>
    \o message \o <<" ">>

NoInput ==
    [stdin |-> <<>>, end |-> "EOF", old |-> <<>>, userInput |-> <<>>,
     fn |-> "none", prompt |-> <<>>, errLog |-> <<>>]

\* A caller about to prompt.
BeforePrompt(stdin, end, old) ==
    [stdin |-> stdin, end |-> end, old |-> old, userInput |-> old,
     fn |-> "none", prompt |-> <<>>, errLog |-> <<>>]

Prompted(fn, prompt, r) ==
    /\ input' = [input EXCEPT
                     !.fn = fn,
                     !.prompt = prompt,
                     !.userInput = r.userInput,
                     !.errLog = r.errLog]
    /\ UNCHANGED <<flagVars, logVars, spinner, sel>>

CallUserInput ==
    /\ input.fn = "none"
    /\ \E promptMessage \in Operands :
           Prompted("UserInput", logMessage("USERINPUT", promptMessage, clock),
                    UserInput(input.stdin, input.end, input.old))

CallMUserInput ==
    /\ input.fn = "none"
    /\ \E promptMessage \in Operands :
           Prompted("MUserInput", logMessage("USERINPUT", promptMessage, clock),
                    MUserInput(input.stdin, input.end, input.old))

CallInput ==
    /\ input.fn = "none"
    /\ \E message \in Operands :
           Prompted("Input", InputPrompt(message, clock),
                    Input(input.stdin, input.end, input.old))

(***************************************************************************)
(* Specifications.  Each use of the package is checked on its own: the     *)
(* parts share nothing but the flags and the clock.                        *)
(***************************************************************************)

\* The logger facade, after InitLogger (log writes to standard output, no
\* prefix), with the flags as the program configured them at startup.
Init ==
    /\ DebugEnabled \in BOOLEAN
    /\ ColorsEnabled \in BOOLEAN
    /\ SuppressOutput \in BOOLEAN
    /\ clock = 0
    /\ lastCall = NoCall
    /\ written = <<>>
    /\ ret = <<>>
    /\ spinner = NoSpinner
    /\ sel = NoSel
    /\ input = NoInput

Next ==
    \/ CallInfo \/ CallSinfo \/ CallInfof \/ CallSinfof
    \/ CallWarning \/ CallSwarning \/ CallWarningf \/ CallSwarningf
    \/ CallError \/ CallSerror \/ CallErrorf \/ CallSerrorf
    \/ CallDebug \/ CallSdebug \/ CallDebugf \/ CallSdebugf
    \/ CallSuccess \/ CallSsuccess \/ CallSuccessf \/ CallSsuccessf
    \/ CallPrompt
    \/ CallFrame
    \/ Tick

Spec == Init /\ [][Next]_vars

\* A spinner in use.
SpinnerInit ==
    /\ DebugEnabled = FALSE
    /\ ColorsEnabled = TRUE
    /\ SuppressOutput \in BOOLEAN
    /\ clock = 0
    /\ lastCall = NoCall
    /\ written = <<>>
    /\ ret = <<>>
    /\ \E message \in Operands, plan \in 0..MaxStops :
           spinner = NewSpinner(message, plan)
    /\ sel = NoSel
    /\ input = NoInput

SpinnerNext ==
    \/ Start
    \/ TaskSelect
    \/ TaskPrint
    \/ TaskWake
    \/ StopClose
    \/ StopPrint

SpinnerSpec == SpinnerInit /\ [][SpinnerNext]_vars

\* The goroutine of the task is scheduled and its sleep ends; the caller's
\* Stop, once begun, runs to its end.
SpinnerFairSpec ==
    /\ SpinnerSpec
    /\ WF_vars(TaskStep)
    /\ WF_vars(StopPrint)

\* A call of SelectOption.
SelectorInit ==
    /\ DebugEnabled = FALSE
    /\ ColorsEnabled = TRUE
    /\ SuppressOutput = FALSE
    /\ clock = 0
    /\ lastCall = NoCall
    /\ written = <<>>
    /\ ret = <<>>
    /\ spinner = NoSpinner
    /\ \E keys \in SUBSET TitleSet, centerItems \in BOOLEAN :
           \E order \in Orders(keys) :
               sel = SelectOptionStart(keys, order, centerItems)
    /\ input = NoInput

SelectorNext ==
    \/ UpdateWindowSize
    \/ UpdateQuit
    \/ UpdateUp
    \/ UpdateDown
    \/ UpdateEnter
    \/ UpdateOtherKey
    \/ RunFails
    \/ SelectOptionReturn

SelectorSpec == SelectorInit /\ [][SelectorNext]_vars

\* A prompt call on some standard input.
InputInit ==
    /\ DebugEnabled = FALSE
    /\ ColorsEnabled = TRUE
    /\ SuppressOutput \in BOOLEAN
    /\ clock = 0
    /\ lastCall = NoCall
    /\ written = <<>>
    /\ ret = <<>>
    /\ spinner = NoSpinner
    /\ sel = NoSel
    /\ \E stdin \in Streams, end \in Ends, old \in OldValues :
           input = BeforePrompt(stdin, end, old)

InputNext ==
    \/ CallUserInput
    \/ CallMUserInput
    \/ CallInput

InputSpec == InputInit /\ [][InputNext]_vars

(***************************************************************************)
(* Properties                                                              *)
(***************************************************************************)

\* C1: calling Stop twice on a started spinner does not panic: the second
\* Stop completes normally.
C1_SecondStopCompletes ==
    spinner.stops >= 2 => spinner.caller # "panicked"

\* C2: when Start was called and Stop is called exactly once, the background
\* task eventually exits: from the closing of the stop channel on, the task
\* gets to return.
C2_TaskExits ==
    (spinner.plan = 1 /\ spinner.stopChan = "closed")
        ~> (spinner.task = "returned")

C2_Witness ==
    /\ spinner.plan = 1
    /\ spinner.stops = 1
    /\ spinner.caller = "stopped"
    /\ spinner.task = "returned"
    /\ spinner.lastOut # <<>>

\* C3: once the only Stop has returned, the newline it wrote is the last
\* output: no frame of the task is written after it.
C3_NewlineIsLast ==
    (spinner.caller = "stopped" /\ spinner.stops = 1)
        => spinner.lastOut = <<"\r", "\n">>

\* C4: SelectOption on {"A": ..., "B": ...} followed by down then enter
\* returns "B" with a nil error, whatever order the options were built in.
C4_DownEnterReturnsB ==
    (/\ sel.optionsDescs = {"A", "B"}
     /\ sel.events = <<"down", "enter">>
     /\ sel.status = "returned")
        => sel.result = [choice |-> "B", err |-> "nil"]

\* C5: when a quit key is processed before any enter, whatever up, down and
\* resize events came first, the loop has ended with selected still -1 and
\* SelectOption returns "" with the error "no option was selected".
C5_QuitReturnsError ==
    (\E i \in 1..Len(sel.events) : sel.events[i] = "quit")
        => /\ sel.status \in {"quit", "returned"}
           /\ sel.m.selected = -1
           /\ sel.status = "returned"
                  => sel.result = [choice |-> "", err |-> "no option was selected"]

C5_Witness ==
    /\ sel.events = <<"down", "resize", "up", "quit">>
    /\ Len(sel.m.options) = 2
    /\ sel.status = "returned"
    /\ sel.result.err = "no option was selected"

IsVisible(t) ==
    t \notin {colorReset, colorMagenta, colorYellow, colorRed, colorCyan, colorGreen}

\* The standard format: "[<timestamp>] [<emoji>] <message>".
StandardFormat(ts, emoji, message) ==
    <<"[", Timestamp(ts), "]", " [", emoji, "] ">> \o message

DebugFns == {"Debug", "Debugf", "Sdebug", "Sdebugf"}

\* C7: a debug call writes and returns nothing when DebugEnabled is false;
\* when DebugEnabled is true and SuppressOutput is false, the log-now calls
\* write one line in the standard format with the debug emoji (colour
\* escapes aside) and the string calls return that text.
C7_DebugGated ==
    lastCall.fn \in DebugFns
        => /\ ~DebugEnabled => (written = <<>> /\ ret = <<>>)
           /\ (DebugEnabled /\ ~SuppressOutput)
                  => IF lastCall.logNow
                     THEN /\ SelectSeq(written, IsVisible)
                               = StandardFormat(lastCall.ts, emojiDebug,
                                                lastCall.message) \o <<"\n">>
                          /\ ret = <<>>
                     ELSE /\ ret = StandardFormat(lastCall.ts, emojiDebug,
                                                  lastCall.message)
                          /\ written = <<>>

C7_Witness ==
    /\ DebugEnabled
    /\ ~SuppressOutput
    /\ lastCall.fn = "Debugf"
    /\ lastCall.ts = 1
    /\ written = <<colorCyan, "[", "1", "]", colorReset, " [", emojiDebug, "] ",
                   "f=", "x", "\n">>

\* The lines of a stream, as a reader of lines sees them: each run of
\* characters up to a "\n", then what is left when it is not empty; a "\r"
\* before the terminator (or at the end) belongs to the terminator.
RECURSIVE LinesOf(_)
LinesOf(stream) ==
    IF stream = <<>>
    THEN <<>>
    ELSE IF \E i \in 1..Len(stream) : stream[i] = "\n"
         THEN LET i == CHOOSE k \in 1..Len(stream) :
                           /\ stream[k] = "\n"
                           /\ \A j \in 1..(k - 1) : stream[j] # "\n"
                  line == SubSeq(stream, 1, i - 1)
              IN  <<IF line # <<>> /\ line[Len(line)] = "\r"
                    THEN SubSeq(line, 1, Len(line) - 1) ELSE line>>
                  \o LinesOf(SubSeq(stream, i + 1, Len(stream)))
         ELSE <<IF stream[Len(stream)] = "\r"
                THEN SubSeq(stream, 1, Len(stream) - 1) ELSE stream>>

\* The number of lines of a stream that end in "\n".
CompleteLines(stream) == Cardinality({i \in 1..Len(stream) : stream[i] = "\n"})

\* The lines before the first empty one (all of them when none is empty).
BeforeFirstEmpty(lines) ==
    IF \E k \in 1..Len(lines) : lines[k] = <<>>
    THEN SubSeq(lines, 1,
                (CHOOSE k \in 1..Len(lines) :
                     /\ lines[k] = <<>>
                     /\ \A j \in 1..(k - 1) : lines[j] # <<>>) - 1)
    ELSE lines

\* Each line followed by a newline, in order.
RECURSIVE JoinLines(_)
JoinLines(lines) ==
    IF lines = <<>> THEN <<>> ELSE Head(lines) \o <<"\n">> \o JoinLines(Tail(lines))

\* The reading of lines gets to the end of the stream: no line that ends in
\* "\n" is empty.
ReachesEnd(stream) ==
    \A k \in 1..CompleteLines(stream) : LinesOf(stream)[k] # <<>>

\* C8: MUserInput, reading no error, sets the output to the lines before the
\* first empty line (or the end of input), each followed by a newline, in
\* order; nothing after the first empty line is included.
C8_MultilineBlock ==
    (/\ input.fn = "MUserInput"
     /\ (input.end = "EOF" \/ ~ReachesEnd(input.stdin)))
        => /\ input.userInput = JoinLines(BeforeFirstEmpty(LinesOf(input.stdin)))
           /\ input.errLog = <<>>

C8_Witness ==
    /\ input.fn = "MUserInput"
    /\ input.stdin = <<"a", "\n", "b", "\n", "\n">>
    /\ input.old = <<"z">>
    /\ input.userInput = <<"a", "\n", "b", "\n">>

\* C9: UserInput sets the output to the first line of standard input, without
\* its terminator, when there is one, and leaves the output as it was when
\* the input ends before any character.
C9_UserInputFirstLine ==
    input.fn = "UserInput"
        => IF input.stdin # <<>>
           THEN input.userInput = LinesOf(input.stdin)[1]
           ELSE input.userInput = input.old

C9_Witness ==
    /\ input.fn = "UserInput"
    /\ input.stdin = <<"a", "b", "\r", "\n", "b">>
    /\ input.old = <<"z">>
    /\ input.userInput = <<"a", "b">>

\* C10 as stated: on a read error the lines MUserInput read before it are
\* delivered to the caller's output.
C10_PartialLinesDelivered ==
    (input.fn = "MUserInput" /\ input.errLog # <<>>)
        => input.userInput = JoinLines(BeforeFirstEmpty(LinesOf(input.stdin)))

\* C10, amended: a read error met during a prompt is logged (and nothing is
\* logged otherwise); UserInput then leaves in the output the partial line
\* read before the error, if any; MUserInput returns without assigning, so
\* the lines read before the error are dropped and the output is unchanged.
C10_ErrorLoggedOutputKept ==
    /\ input.fn = "UserInput"
           => IF input.end = "ERR" /\ CompleteLines(input.stdin) = 0
              THEN /\ input.errLog = ErrorReadingInput("ERR")
                   /\ input.userInput = IF input.stdin = <<>>
                                         THEN input.old
                                         ELSE LinesOf(input.stdin)[1]
              ELSE input.errLog = <<>>
    /\ input.fn = "MUserInput"
           => IF input.end = "ERR" /\ ReachesEnd(input.stdin)
              THEN /\ input.errLog = ErrorReadingInput("ERR")
                   /\ input.userInput = input.old
              ELSE input.errLog = <<>>

C10_Witness ==
    /\ input.fn = "MUserInput"
    /\ input.end = "ERR"
    /\ input.stdin = <<"a", "\n", "b">>
    /\ input.old = <<"z">>
    /\ input.userInput = <<"z">>
    /\ input.errLog # <<>>

\* The message Update processed in this step, "none" when the step is no
\* call of Update.
Processed ==
    IF Len(sel'.events) = Len(sel.events) + 1
    THEN sel'.events[Len(sel'.events)]
    ELSE "none"

\* C11: with a non-empty option list the cursor stays within
\* 0..len(options)-1 through every up, down and resize; up at 0 and down at
\* the last index leave it where it is, elsewhere they move it by one; no
\* step moves it by more than one.
C11_CursorClamped ==
    /\ [](Len(sel.m.options) > 0
             => sel.m.cursor \in 0..(Len(sel.m.options) - 1))
    /\ [][Len(sel.m.options) > 0
             => LET c == sel.m.cursor
                    last == Len(sel.m.options) - 1
                IN  /\ sel'.m.cursor - c \in {-1, 0, 1}
                    /\ Processed = "up"
                           => sel'.m.cursor = IF c = 0 THEN 0 ELSE c - 1
                    /\ Processed = "down"
                           => sel'.m.cursor = IF c = last THEN last ELSE c + 1
                    /\ Processed \notin {"up", "down"}
                           => sel'.m.cursor = c]_vars

C11_Witness ==
    /\ sel.events = <<"up", "down", "down", "resize">>
    /\ Len(sel.m.options) = 2
    /\ sel.m.cursor = 1
    /\ sel.status = "running"

\* C12: selected is -1 until an enter is processed; processing enter sets
\* selected to the cursor, choice to the title of the option there, sets
\* quitting and ends the loop; the loop ends only in Selected (quitting with
\* a selection) or Aborted (quitting without one), and only after an enter
\* or a quit key.
C12_EnterSelects ==
    LET n == Len(sel.events)
        entered == \E i \in 1..n : sel.events[i] = "enter"
        ended == sel.status \in {"quit", "panic", "returned"}
    IN  /\ ~entered => sel.m.selected = -1
        /\ entered
               => /\ sel.events[n] = "enter"
                  /\ ended
                  /\ sel.m.quitting
                  /\ sel.m.selected = sel.m.cursor
                  /\ sel.m.cursor + 1 \in 1..Len(sel.m.options)
                  /\ sel.m.choice = sel.m.options[sel.m.cursor + 1].title
        /\ ended
               => /\ sel.events[n] \in {"enter", "quit"}
                  /\ sel.m.quitting
        /\ sel.m.quitting => ended

\* C13: processing an enter never reads options[cursor] out of range,
\* whatever the option list, the empty one included: no sequence of events
\* makes Update panic.
C13_EnterIndexInRange ==
    (\E i \in 1..Len(sel.events) : sel.events[i] = "enter")
        => sel.status # "panic"

====
